---- MODULE Spec2Model ----
(***************************************************************************)
(* Model of the control core of the amp editor:                            *)
(*   src/src/commands/cursor.rs        token-aware cursor commands         *)
(*   src/src/models/application/mod.rs Application, Mode and the run loop  *)
(*                                                                         *)
(* Text is a sequence of one-character strings.  A buffer is its token     *)
(* sequence (the content is the concatenation of the lexemes) and its      *)
(* cursor.  Two specifications share the definitions:                      *)
(*   Spec     the run loop of Application::run on a few sample buffers     *)
(*   SpecNav  the cursor commands called directly (as the unit tests of    *)
(*            cursor.rs do) on every token sequence within the bounds      *)
(***************************************************************************)
EXTENDS Integers, Sequences, FiniteSets, TLC

VARIABLES
    workspace,  \* app.workspace: [has_buffer, tokens, cursor] of the current buffer
    mode,       \* app.mode: [variant, insert]
    error,      \* app.error: "None" or the description of an error
    view,       \* app.view: [frame, status_line, presented]
    pc,         \* position of Application::run in its loop body
    key,        \* the Option<Key> yielded by view.listen() in this iteration
    command,    \* the Option<Command> resolved in this iteration
    last        \* history: the last command run, the cursor before it, its result

vars == <<workspace, mode, error, view, pc, key, command, last>>

----------------------------------------------------------------------------
(* Bounds *)

MaxTokens == 3

\* The content stops growing at this length (insert_with_newline adds to it).
MaxContent == 7

----------------------------------------------------------------------------
(* Text, lines and positions *)

NL == "\n"

IsWhitespace(ch) == ch \in {" ", NL}

Position(l, o) == [line |-> l, offset |-> o]

\* #[derive(PartialOrd)] on Position: line first, then offset.
PosLt(p, q) == p.line < q.line \/ (p.line = q.line /\ p.offset < q.offset)

PosGt(p, q) == PosLt(q, p)

PosGeq(p, q) == ~PosLt(p, q)

\* The pieces of s between line breaks, the (possibly empty) last one included.
RECURSIVE Split(_)
Split(s) ==
    IF \A i \in 1..Len(s) : s[i] # NL
    THEN <<s>>
    ELSE LET i == CHOOSE j \in 1..Len(s) :
                      s[j] = NL /\ \A k \in 1..(j - 1) : s[k] # NL
         IN <<SubSeq(s, 1, i - 1)>> \o Split(SubSeq(s, i + 1, Len(s)))

\* str::lines(): the pieces between line breaks; a final empty piece (the
\* string is empty or ends with a line break) is not a line.
lines(s) ==
    LET p == Split(s)
    IN IF p[Len(p)] = <<>> THEN SubSeq(p, 1, Len(p) - 1) ELSE p

\* str::len() of a lexeme: every character of the model is one byte long.
len(s) == Len(s)

----------------------------------------------------------------------------
(* Tokens and buffers *)

\* luthor::token::Category is "Whitespace" or, standing for every other one, "Text".
Token(lexeme, category) == [lexeme |-> lexeme, category |-> category]

\* Lexemes of whitespace tokens: runs of blanks and line breaks.
WhitespaceLexemes ==
    {<<" ">>, <<NL>>, <<" ", " ">>, <<NL, " ">>, <<" ", NL>>, <<NL, NL>>}

\* Lexemes of the other tokens: words, and tokens that span or end a line
\* (a block comment, a line comment lexed with its line break).
TextLexemes ==
    {<<"a">>, <<"a", "a">>, <<"a", NL>>, <<"a", NL, "a">>}

Tokens ==
    {Token(x, "Whitespace") : x \in WhitespaceLexemes}
        \cup {Token(x, "Text") : x \in TextLexemes}

RECURSIVE SeqsUpTo(_, _)
SeqsUpTo(S, n) ==
    IF n = 0
    THEN {<<>>}
    ELSE LET shorter == SeqsUpTo(S, n - 1)
         IN shorter \cup {Append(q, x) : q \in {r \in shorter : Len(r) = n - 1}, x \in S}

\* buffer.data(): the content the tokens were lexed from.
RECURSIVE data(_)
data(tokens) ==
    IF tokens = <<>> THEN <<>> ELSE tokens[1].lexeme \o data(Tail(tokens))

\* The buffer engine's bounds test: the line exists and the offset is at most
\* its length.  The line after a final line break exists and is empty.
in_bounds(content, position) ==
    LET ls == Split(content)
    IN /\ position.line + 1 <= Len(ls)
       /\ position.offset <= Len(ls[position.line + 1])

\* The positions of the content that are in bounds, line by line.
Positions(content) ==
    LET ls == Split(content)
    IN UNION {{Position(l - 1, o) : o \in 0..Len(ls[l])} : l \in 1..Len(ls)}

\* group: the buffer has an operation group open (start_command_group);
\* edits: for each edit of the buffer, whether a group was open to take it.
NoWorkspace ==
    [has_buffer |-> FALSE, tokens |-> <<>>, cursor |-> Position(0, 0),
     group |-> FALSE, edits |-> <<>>]

Workspace(tokens, cursor) ==
    [has_buffer |-> TRUE, tokens |-> tokens, cursor |-> cursor,
     group |-> FALSE, edits |-> <<>>]

\* buffer.cursor.move_to(position): the cursor moves only to a position inside
\* the content; otherwise it stays where it is.
move_to(w, position) ==
    IF in_bounds(data(w.tokens), position) THEN [w EXCEPT !.cursor = position] ELSE w

\* The cursor primitives of the buffer engine, on the lines of the content.
LineLength(w, l) == Len(Split(data(w.tokens))[l + 1])

LineCount(w) == Len(Split(data(w.tokens)))

Min(a, b) == IF a < b THEN a ELSE b

cursor_move_up(w) ==
    IF w.cursor.line > 0
    THEN [w EXCEPT !.cursor =
              Position(w.cursor.line - 1, Min(w.cursor.offset, LineLength(w, w.cursor.line - 1)))]
    ELSE w

cursor_move_down(w) ==
    IF w.cursor.line + 1 < LineCount(w)
    THEN [w EXCEPT !.cursor =
              Position(w.cursor.line + 1, Min(w.cursor.offset, LineLength(w, w.cursor.line + 1)))]
    ELSE w

cursor_move_left(w) ==
    IF w.cursor.offset > 0
    THEN [w EXCEPT !.cursor = Position(w.cursor.line, w.cursor.offset - 1)]
    ELSE w

cursor_move_right(w) ==
    IF w.cursor.offset < LineLength(w, w.cursor.line)
    THEN [w EXCEPT !.cursor = Position(w.cursor.line, w.cursor.offset + 1)]
    ELSE w

cursor_move_to_start_of_line(w) == [w EXCEPT !.cursor = Position(w.cursor.line, 0)]

cursor_move_to_end_of_line(w) ==
    [w EXCEPT !.cursor = Position(w.cursor.line, LineLength(w, w.cursor.line))]

\* The tokenizer: maximal runs of whitespace and of other characters.
RECURSIVE lex(_)
lex(content) ==
    IF content = <<>>
    THEN <<>>
    ELSE LET ws == IsWhitespace(content[1])
             n == CHOOSE k \in 1..Len(content) :
                      /\ \A j \in 1..k : IsWhitespace(content[j]) = ws
                      /\ k = Len(content) \/ IsWhitespace(content[k + 1]) # ws
         IN <<Token(SubSeq(content, 1, n), IF ws THEN "Whitespace" ELSE "Text")>>
                \o lex(SubSeq(content, n + 1, Len(content)))

\* The number of characters of the content before a position.
RECURSIVE CharsBefore(_, _)
CharsBefore(ls, position) ==
    IF position.line = 0
    THEN position.offset
    ELSE Len(ls[1]) + 1 + CharsBefore(Tail(ls), Position(position.line - 1, position.offset))

\* buffer::start_command_group: the buffer opens an operation group.
start_command_group(w) == IF w.has_buffer THEN [w EXCEPT !.group = TRUE] ELSE w

\* buffer::insert_newline: a line break goes in at the cursor, which moves to
\* the start of the new line; the tokens are those of the new content; the
\* edit goes into the open operation group, or stands alone.
insert_newline(w) ==
    IF w.has_buffer
    THEN LET content == data(w.tokens)
             i == CharsBefore(Split(content), w.cursor)
         IN [w EXCEPT !.tokens = lex(SubSeq(content, 1, i) \o <<NL>>
                                        \o SubSeq(content, i + 1, Len(content))),
                      !.cursor = Position(w.cursor.line + 1, 0),
                      !.edits = Append(w.edits, IF w.group THEN "grouped" ELSE "single")]
    ELSE w

----------------------------------------------------------------------------
(* commands/cursor.rs *)

\* As move_up, but a buffer is opened when there is none.
move_up_opening_buffer(w) ==
    IF w.has_buffer THEN cursor_move_up(w) ELSE [w EXCEPT !.has_buffer = TRUE]

move_up(w) == IF w.has_buffer THEN cursor_move_up(w) ELSE w

move_down(w) == IF w.has_buffer THEN cursor_move_down(w) ELSE w

move_left(w) == IF w.has_buffer THEN cursor_move_left(w) ELSE w

move_right(w) == IF w.has_buffer THEN cursor_move_right(w) ELSE w

move_to_start_of_line(w) == IF w.has_buffer THEN cursor_move_to_start_of_line(w) ELSE w

move_to_end_of_line(w) == IF w.has_buffer THEN cursor_move_to_end_of_line(w) ELSE w

\* The composite commands: the commands they call, in order.
insert_at_end_of_line ==
    <<"cursor::move_to_end_of_line", "application::switch_to_insert_mode">>

insert_at_first_word_of_line ==
    <<"cursor::move_to_first_word_of_line", "application::switch_to_insert_mode">>

\* As insert_with_newline, but the line break is inserted before the
\* operation group is started.
insert_with_newline_ungrouped ==
    <<"cursor::move_to_end_of_line", "buffer::insert_newline",
      "buffer::start_command_group", "application::switch_to_insert_mode">>

insert_with_newline ==
    <<"cursor::move_to_end_of_line", "buffer::start_command_group",
      "buffer::insert_newline", "application::switch_to_insert_mode">>

\* "Calculate the position of the next token": the accumulator (line, offset)
\* advanced over one lexeme.  lines().count() is 0 for an empty lexeme, where
\* n-1 underflows; the lexemes of the model are not empty.
advance(position, lexeme) ==
    LET n == Len(lines(lexeme))
    IN IF n = 1
       THEN Position(position.line, position.offset + len(lexeme))
       ELSE Position(position.line + (n - 1), Len(lines(lexeme)[n]))

\* As previous_scan, but closest_position is taken after the accumulator has
\* advanced over the token.
RECURSIVE previous_scan_after_advance(_, _, _, _, _)
previous_scan_after_advance(tokens, i, closest_position, next_position, cursor) ==
    IF i > Len(tokens)
    THEN closest_position
    ELSE LET next == advance(next_position, tokens[i].lexeme)
             closest == IF tokens[i].category = "Whitespace"
                        THEN closest_position
                        ELSE next
         IN IF PosGeq(next, cursor)
            THEN closest
            ELSE previous_scan_after_advance(tokens, i + 1, closest, next, cursor)

\* The loop of move_to_start_of_previous_token from token i on; the result is
\* closest_position when the loop ends or breaks.
RECURSIVE previous_scan(_, _, _, _, _)
previous_scan(tokens, i, closest_position, next_position, cursor) ==
    IF i > Len(tokens)
    THEN closest_position
    ELSE LET closest == IF tokens[i].category = "Whitespace"
                        THEN closest_position
                        ELSE next_position
             next == advance(next_position, tokens[i].lexeme)
         IN IF PosGeq(next, cursor)
            THEN closest
            ELSE previous_scan(tokens, i + 1, closest, next, cursor)

move_to_start_of_previous_token(w) ==
    IF w.has_buffer
    THEN move_to(w, previous_scan(w.tokens, 1, Position(0, 0), Position(0, 0), w.cursor))
    ELSE w

\* The loop of move_to_start_of_next_token from token i on: the position it
\* hands to move_to, if it reaches that call.
RECURSIVE next_scan(_, _, _, _)
next_scan(tokens, i, next_position, cursor) ==
    IF i > Len(tokens)
    THEN [found |-> FALSE, position |-> cursor]
    ELSE IF PosGt(next_position, cursor) /\ tokens[i].category # "Whitespace"
         THEN [found |-> TRUE, position |-> next_position]
         ELSE next_scan(tokens, i + 1, advance(next_position, tokens[i].lexeme), cursor)

\* As move_to_start_of_next_token, but the cursor position is assigned without
\* going through move_to.
move_to_start_of_next_token_unchecked(w) ==
    IF w.has_buffer
    THEN LET target == next_scan(w.tokens, 1, Position(0, 0), w.cursor)
         IN IF target.found THEN [w EXCEPT !.cursor = target.position] ELSE w
    ELSE w

move_to_start_of_next_token(w) ==
    IF w.has_buffer
    THEN LET target == next_scan(w.tokens, 1, Position(0, 0), w.cursor)
         IN IF target.found THEN move_to(w, target.position) ELSE w
    ELSE w

\* As first_word_scan, but stopping at the first character that is whitespace.
RECURSIVE first_word_scan_unnegated(_, _)
first_word_scan_unnegated(line, offset) ==
    IF offset >= Len(line)
    THEN -1
    ELSE IF IsWhitespace(line[offset + 1])
         THEN offset
         ELSE first_word_scan_unnegated(line, offset + 1)

\* line.chars().enumerate() up to the first character that is not whitespace:
\* its offset, or -1 when the loop runs off the line.
RECURSIVE first_word_scan(_, _)
first_word_scan(line, offset) ==
    IF offset >= Len(line)
    THEN -1
    ELSE IF ~IsWhitespace(line[offset + 1])
         THEN offset
         ELSE first_word_scan(line, offset + 1)

move_to_first_word_of_line(w) ==
    IF w.has_buffer
    THEN LET ls == lines(data(w.tokens))
         IN IF w.cursor.line + 1 <= Len(ls)
            THEN LET offset == first_word_scan(ls[w.cursor.line + 1], 0)
                 IN IF offset >= 0
                    THEN move_to(w, Position(w.cursor.line, offset))
                    ELSE w
            ELSE w
    ELSE w

----------------------------------------------------------------------------
(* models/application/mod.rs *)

Variants ==
    {"Confirm", "Command", "Exit", "Insert", "Jump", "LineJump", "Normal",
     "Open", "Select", "SelectLine", "SearchInsert", "SymbolJump", "Theme"}

\* The variants whose state answers insert_mode().
SearchSelectVariants == {"Command", "Open", "SymbolJump", "Theme"}

Mode(variant, insert) == [variant |-> variant, insert |-> insert]

Modes ==
    {Mode(v, FALSE) : v \in Variants} \cup {Mode(v, TRUE) : v \in SearchSelectVariants}

\* As mode_str, but with the two branches of the insert_mode() test exchanged.
mode_str_exchanged(m) ==
    CASE m.variant \in SearchSelectVariants ->
             IF m.insert THEN "search_select" ELSE "search_select_insert"
      [] m.variant = "Normal" -> "normal"
      [] m.variant = "Confirm" -> "confirm"
      [] m.variant = "Insert" -> "insert"
      [] m.variant = "Jump" -> "jump"
      [] m.variant = "LineJump" -> "line_jump"
      [] m.variant = "Select" -> "select"
      [] m.variant = "SelectLine" -> "select_line"
      [] m.variant = "SearchInsert" -> "search_insert"
      [] m.variant = "Exit" -> "None"

\* Application::mode_str: the keymap name of a mode, "None" for no lookup.
mode_str(m) ==
    CASE m.variant \in SearchSelectVariants ->
             IF m.insert THEN "search_select_insert" ELSE "search_select"
      [] m.variant = "Normal" -> "normal"
      [] m.variant = "Confirm" -> "confirm"
      [] m.variant = "Insert" -> "insert"
      [] m.variant = "Jump" -> "jump"
      [] m.variant = "LineJump" -> "line_jump"
      [] m.variant = "Select" -> "select"
      [] m.variant = "SelectLine" -> "select_line"
      [] m.variant = "SearchInsert" -> "search_insert"
      [] m.variant = "Exit" -> "None"

\* The presenter the render step of run selects, "None" for Mode::Exit.
presenter(m) ==
    CASE m.variant \in SearchSelectVariants -> "search_select"
      [] m.variant = "Confirm" -> "confirm"
      [] m.variant = "Insert" -> "insert"
      [] m.variant = "SearchInsert" -> "search_insert"
      [] m.variant = "Jump" -> "jump"
      [] m.variant = "LineJump" -> "line_jump"
      [] m.variant = "Select" -> "select"
      [] m.variant = "SelectLine" -> "select_line"
      [] m.variant = "Normal" -> "normal"
      [] m.variant = "Exit" -> "None"

\* Result::err(): the error of a failed command, None for a successful one.
err(result) == IF result = "Ok" THEN "None" ELSE result

Keys ==
    {"w", "b", "^", "i", "s", "Q", "escape", "z",
     "space", ":", "f", "g", "v", "V", "/", "r", "t", "q"}

CursorCommands ==
    {"cursor::move_to_first_word_of_line",
     "cursor::move_to_start_of_previous_token",
     "cursor::move_to_start_of_next_token"}

\* The navigation commands of cursor.rs.
NavigationCommands ==
    CursorCommands \cup
        {"cursor::move_up", "cursor::move_down", "cursor::move_left", "cursor::move_right",
         "cursor::move_to_start_of_line", "cursor::move_to_end_of_line"}

CompositeCommands ==
    {"cursor::insert_at_end_of_line", "cursor::insert_at_first_word_of_line",
     "cursor::insert_with_newline"}

\* The commands a command runs, in order: itself unless it is a composite.
command_parts(c) ==
    CASE c = "cursor::insert_at_end_of_line" -> insert_at_end_of_line
      [] c = "cursor::insert_at_first_word_of_line" -> insert_at_first_word_of_line
      [] c = "cursor::insert_with_newline" -> insert_with_newline
      [] OTHER -> <<c>>

\* self.key_map.command_for(&mode, &key): a keymap in the manner of the
\* default one.  "z" is bound nowhere; outside normal mode only escape is
\* bound, and "i" while selecting from a search.
command_for(mode_name, k) ==
    CASE mode_name = "normal" /\ k = "w" -> "cursor::move_to_start_of_next_token"
      [] mode_name = "normal" /\ k = "b" -> "cursor::move_to_start_of_previous_token"
      [] mode_name = "normal" /\ k = "^" -> "cursor::move_to_first_word_of_line"
      [] mode_name = "normal" /\ k = "i" -> "application::switch_to_insert_mode"
      [] mode_name = "normal" /\ k = "s" -> "buffer::save"
      [] mode_name = "normal" /\ k = "Q" -> "application::exit"
      [] mode_name = "normal" /\ k = "space" -> "application::switch_to_open_mode"
      [] mode_name = "normal" /\ k = ":" -> "application::switch_to_command_mode"
      [] mode_name = "normal" /\ k = "f" -> "application::switch_to_jump_mode"
      [] mode_name = "normal" /\ k = "g" -> "application::switch_to_line_jump_mode"
      [] mode_name = "normal" /\ k = "v" -> "application::switch_to_select_mode"
      [] mode_name = "normal" /\ k = "V" -> "application::switch_to_select_line_mode"
      [] mode_name = "normal" /\ k = "/" -> "application::switch_to_search_insert_mode"
      [] mode_name = "normal" /\ k = "r" -> "application::switch_to_symbol_jump_mode"
      [] mode_name = "normal" /\ k = "t" -> "application::switch_to_theme_mode"
      [] mode_name = "normal" /\ k = "q" -> "buffer::close"
      [] mode_name = "search_select" /\ k = "i" -> "search_select::enable_insert"
      [] mode_name = "search_select_insert" /\ k = "escape" -> "search_select::disable_insert"
      [] mode_name \in {"insert", "confirm", "jump", "line_jump", "select", "select_line",
                        "search_insert", "search_select"} /\ k = "escape" ->
             "application::switch_to_normal_mode"
      [] OTHER -> "None"

\* What a command that is not a composite does to the workspace.
part_workspace(c, w) ==
    CASE c = "cursor::move_to_first_word_of_line" -> move_to_first_word_of_line(w)
      [] c = "cursor::move_to_start_of_previous_token" -> move_to_start_of_previous_token(w)
      [] c = "cursor::move_to_start_of_next_token" -> move_to_start_of_next_token(w)
      [] c = "cursor::move_up" -> move_up(w)
      [] c = "cursor::move_down" -> move_down(w)
      [] c = "cursor::move_left" -> move_left(w)
      [] c = "cursor::move_right" -> move_right(w)
      [] c = "cursor::move_to_start_of_line" -> move_to_start_of_line(w)
      [] c = "cursor::move_to_end_of_line" -> move_to_end_of_line(w)
      [] c = "buffer::start_command_group" -> start_command_group(w)
      [] c = "buffer::insert_newline" -> insert_newline(w)
      [] OTHER -> w

\* What a command that is not a composite assigns to app.mode.
part_mode(c, m) ==
    CASE c = "application::switch_to_insert_mode" -> Mode("Insert", FALSE)
      [] c = "application::switch_to_normal_mode" -> Mode("Normal", FALSE)
      [] c = "application::exit" -> Mode("Exit", FALSE)
      [] c = "application::switch_to_open_mode" -> Mode("Open", TRUE)
      [] c = "application::switch_to_command_mode" -> Mode("Command", TRUE)
      [] c = "application::switch_to_symbol_jump_mode" -> Mode("SymbolJump", TRUE)
      [] c = "application::switch_to_theme_mode" -> Mode("Theme", TRUE)
      [] c = "application::switch_to_jump_mode" -> Mode("Jump", FALSE)
      [] c = "application::switch_to_line_jump_mode" -> Mode("LineJump", FALSE)
      [] c = "application::switch_to_select_mode" -> Mode("Select", FALSE)
      [] c = "application::switch_to_select_line_mode" -> Mode("SelectLine", FALSE)
      [] c = "application::switch_to_search_insert_mode" -> Mode("SearchInsert", FALSE)
      [] c = "buffer::close" -> Mode("Confirm", FALSE)
      [] c = "search_select::enable_insert" -> Mode(m.variant, TRUE)
      [] c = "search_select::disable_insert" -> Mode(m.variant, FALSE)
      [] OTHER -> m

\* The workspace after the commands of parts have run one after the other.
RECURSIVE run_workspace(_, _)
run_workspace(parts, w) ==
    IF parts = <<>> THEN w ELSE run_workspace(Tail(parts), part_workspace(Head(parts), w))

\* The mode after the commands of parts have run one after the other.
RECURSIVE run_mode(_, _)
run_mode(parts, m) ==
    IF parts = <<>> THEN m ELSE run_mode(Tail(parts), part_mode(Head(parts), m))

\* What a command does to the workspace, and what it assigns to app.mode.
command_workspace(c, w) == run_workspace(command_parts(c), w)

command_mode(c, m) == run_mode(command_parts(c), m)

\* The results a command can return: the cursor commands have no error path,
\* saving a buffer can fail in more than one way.
command_results(c) ==
    IF c = "buffer::save" THEN {"Ok", "permission denied", "no path"} ELSE {"Ok"}

NoCommand == [op |-> "None", from |-> Position(0, 0), result |-> "Ok", calls |-> <<>>]

\* The record of a command run: where the cursor was, what the command
\* returned and the commands it called, in order.
Invocation(c, from, result) ==
    [op |-> c, from |-> from, result |-> result, calls |-> command_parts(c)]

\* Application::new: Mode::Normal, no error; nothing drawn or read yet.
NewApplication ==
    /\ mode = Mode("Normal", FALSE)
    /\ error = "None"
    /\ view = [frame |-> "blank", status_line |-> "blank"]
    /\ key = "None"
    /\ command = "None"
    /\ last = NoCommand

\* run, step 1: present the application state to the view.
Render ==
    /\ pc = "render"
    /\ view' = IF presenter(mode) = "None"
               THEN view
               ELSE [frame |-> presenter(mode), status_line |-> "mode"]
    /\ pc' = "display_error"
    /\ UNCHANGED <<workspace, mode, error, key, command, last>>

\* As DisplayError, but the pending error is not drawn.
DisplayErrorNotDrawn ==
    /\ pc = "display_error"
    /\ pc' = "listen"
    /\ UNCHANGED <<workspace, mode, error, view, key, command, last>>

\* run, step 2: display an error from the previous command invocation.
DisplayError ==
    /\ pc = "display_error"
    /\ view' = IF error # "None" THEN [view EXCEPT !.status_line = error] ELSE view
    /\ pc' = "listen"
    /\ UNCHANGED <<workspace, mode, error, key, command, last>>

\* As Listen, but the escape key is handled by the loop itself, which goes to
\* normal mode without a command.
ListenEscapeToNormal ==
    /\ pc = "listen"
    /\ \E k \in Keys \cup {"None"} :
           /\ key' = k
           /\ command' = IF k = "None" \/ k = "escape" \/ mode_str(mode) = "None"
                         THEN "None"
                         ELSE command_for(mode_str(mode), k)
           /\ mode' = IF k = "escape" THEN Mode("Normal", FALSE) ELSE mode
    /\ pc' = "dispatch"
    /\ UNCHANGED <<workspace, error, view, last>>

\* As Listen, but the key is first looked up under "normal" and the command
\* found there is taken when it is a cursor command, whatever the mode.
ListenNormalFirst ==
    /\ pc = "listen"
    /\ \E k \in Keys \cup {"None"} :
           /\ key' = k
           /\ command' = IF k = "None" \/ mode_str(mode) = "None"
                         THEN "None"
                         ELSE IF command_for("normal", k) \in CursorCommands
                              THEN command_for("normal", k)
                              ELSE command_for(mode_str(mode), k)
    /\ pc' = "dispatch"
    /\ UNCHANGED <<workspace, mode, error, view, last>>

\* run, step 3: view.listen() yields a key or nothing; the command is looked
\* up under the keymap name of the mode.
Listen ==
    /\ pc = "listen"
    /\ \E k \in Keys \cup {"None"} :
           /\ key' = k
           /\ command' = IF k = "None" \/ mode_str(mode) = "None"
                         THEN "None"
                         ELSE command_for(mode_str(mode), k)
    /\ pc' = "dispatch"
    /\ UNCHANGED <<workspace, mode, error, view, last>>

\* As Dispatch, but after a command the loop continues with the next key,
\* without the exit check and the drawing.
DispatchThenListen ==
    /\ pc = "dispatch"
    /\ IF command # "None"
       THEN /\ \E result \in command_results(command) :
                   /\ workspace' = command_workspace(command, workspace)
                   /\ mode' = command_mode(command, mode)
                   /\ error' = err(result)
                   /\ last' = Invocation(command, workspace.cursor, result)
            /\ pc' = IF command_mode(command, mode).variant = "Exit"
                     THEN "exit_check" ELSE "listen"
       ELSE /\ UNCHANGED <<workspace, mode, error, last>>
            /\ pc' = "exit_check"
    /\ UNCHANGED <<view, key, command>>

\* As Dispatch, but the error is assigned from the optional command's outcome,
\* so an iteration without a command clears it.
DispatchClearsError ==
    /\ pc = "dispatch"
    /\ IF command # "None"
       THEN \E result \in command_results(command) :
                /\ workspace' = command_workspace(command, workspace)
                /\ mode' = command_mode(command, mode)
                /\ error' = err(result)
                /\ last' = Invocation(command, workspace.cursor, result)
       ELSE /\ error' = "None"
            /\ UNCHANGED <<workspace, mode, last>>
    /\ pc' = "exit_check"
    /\ UNCHANGED <<view, key, command>>

\* As Dispatch, but the error is stored only when the command failed.
DispatchKeepsError ==
    /\ pc = "dispatch"
    /\ IF command # "None"
       THEN \E result \in command_results(command) :
                /\ workspace' = command_workspace(command, workspace)
                /\ mode' = command_mode(command, mode)
                /\ error' = IF result = "Ok" THEN error ELSE err(result)
                /\ last' = Invocation(command, workspace.cursor, result)
       ELSE UNCHANGED <<workspace, mode, error, last>>
    /\ pc' = "exit_check"
    /\ UNCHANGED <<view, key, command>>

\* run, step 4: run the command, if any, and store its error output.
Dispatch ==
    /\ pc = "dispatch"
    /\ IF command # "None"
       THEN \E result \in command_results(command) :
                /\ workspace' = command_workspace(command, workspace)
                /\ mode' = command_mode(command, mode)
                /\ error' = err(result)
                /\ last' = Invocation(command, workspace.cursor, result)
       ELSE UNCHANGED <<workspace, mode, error, last>>
    /\ pc' = "exit_check"
    /\ UNCHANGED <<view, key, command>>

\* As ExitCheck, but without the break: the display is cleared and the loop
\* goes round again.
ExitCheckNoBreak ==
    /\ pc = "exit_check"
    /\ view' = IF mode.variant = "Exit"
               THEN [frame |-> "cleared", status_line |-> "cleared"]
               ELSE view
    /\ pc' = "render"
    /\ UNCHANGED <<workspace, mode, error, key, command, last>>

\* As ExitCheck, but an iteration without a key event also leaves the loop.
ExitCheckOrNoKey ==
    /\ pc = "exit_check"
    /\ IF mode.variant = "Exit" \/ key = "None"
       THEN /\ view' = [frame |-> "cleared", status_line |-> "cleared"]
            /\ pc' = "done"
       ELSE /\ view' = view
            /\ pc' = "render"
    /\ UNCHANGED <<workspace, mode, error, key, command, last>>

\* run, step 5: leave the loop if the command resulted in an exit.
ExitCheck ==
    /\ pc = "exit_check"
    /\ IF mode.variant = "Exit"
       THEN /\ view' = [frame |-> "cleared", status_line |-> "cleared"]
            /\ pc' = "done"
       ELSE /\ view' = view
            /\ pc' = "render"
    /\ UNCHANGED <<workspace, mode, error, key, command, last>>

\* The workspaces the run loop is explored on: no buffer, "aa aa" with the
\* cursor in the second word, an indented word, two lines.
SampleWorkspaces ==
    {NoWorkspace,
     Workspace(<<Token(<<"a", "a">>, "Text"), Token(<<" ">>, "Whitespace"),
                 Token(<<"a", "a">>, "Text")>>, Position(0, 4)),
     Workspace(<<Token(<<" ", " ">>, "Whitespace"), Token(<<"a">>, "Text")>>,
               Position(0, 3)),
     Workspace(<<Token(<<"a">>, "Text"), Token(<<NL>>, "Whitespace"),
                 Token(<<"a">>, "Text")>>, Position(0, 0))}

Init ==
    /\ workspace \in SampleWorkspaces
    /\ NewApplication
    /\ pc = "render"

Next == Render \/ DisplayError \/ Listen \/ Dispatch \/ ExitCheck

Spec == Init /\ [][Next]_vars

----------------------------------------------------------------------------
(* The cursor commands called directly on an application holding one buffer *)

\* The workspaces with no buffer or one buffer of the given tokens, the cursor
\* anywhere inside its content.
BoundedWorkspaces(tokens) ==
    {NoWorkspace} \cup {Workspace(tokens, c) : c \in Positions(data(tokens))}

\* A direct call of command c; a command that would make the content longer
\* than MaxContent is not called.
Call(c) ==
    /\ pc = "test"
    /\ "buffer::insert_newline" \in {command_parts(c)[i] : i \in 1..Len(command_parts(c))}
           => Len(data(workspace.tokens)) < MaxContent
    /\ workspace' = command_workspace(c, workspace)
    /\ mode' = command_mode(c, mode)
    /\ last' = Invocation(c, workspace.cursor, "Ok")
    /\ UNCHANGED <<error, view, pc, key, command>>

CallMoveToFirstWordOfLine == Call("cursor::move_to_first_word_of_line")

CallMoveToStartOfPreviousToken == Call("cursor::move_to_start_of_previous_token")

CallMoveToStartOfNextToken == Call("cursor::move_to_start_of_next_token")

InitNav ==
    /\ \E tokens \in SeqsUpTo(Tokens, MaxTokens) : workspace \in BoundedWorkspaces(tokens)
    /\ NewApplication
    /\ pc = "test"

NextNav ==
    \/ CallMoveToFirstWordOfLine
    \/ CallMoveToStartOfPreviousToken
    \/ CallMoveToStartOfNextToken

SpecNav == InitNav /\ [][NextNav]_vars

----------------------------------------------------------------------------
(* Every command of cursor.rs called directly, on the sample workspaces, in  *)
(* an application that may be in another mode and hold a pending error       *)

CallMoveUp == Call("cursor::move_up")

CallMoveDown == Call("cursor::move_down")

CallMoveLeft == Call("cursor::move_left")

CallMoveRight == Call("cursor::move_right")

CallMoveToStartOfLine == Call("cursor::move_to_start_of_line")

CallMoveToEndOfLine == Call("cursor::move_to_end_of_line")

CallInsertAtEndOfLine == Call("cursor::insert_at_end_of_line")

CallInsertAtFirstWordOfLine == Call("cursor::insert_at_first_word_of_line")

CallInsertWithNewline == Call("cursor::insert_with_newline")

InitCmd ==
    /\ workspace \in SampleWorkspaces
    /\ mode \in {Mode("Normal", FALSE), Mode("Select", FALSE)}
    /\ error \in {"None", "no path"}
    /\ view = [frame |-> "blank", status_line |-> "blank"]
    /\ key = "None"
    /\ command = "None"
    /\ last = NoCommand
    /\ pc = "test"

NextCmd ==
    \/ CallMoveUp
    \/ CallMoveDown
    \/ CallMoveLeft
    \/ CallMoveRight
    \/ CallMoveToStartOfLine
    \/ CallMoveToFirstWordOfLine
    \/ CallMoveToEndOfLine
    \/ CallInsertAtEndOfLine
    \/ CallInsertAtFirstWordOfLine
    \/ CallInsertWithNewline
    \/ CallMoveToStartOfPreviousToken
    \/ CallMoveToStartOfNextToken

SpecCmd == InitCmd /\ [][NextCmd]_vars

----------------------------------------------------------------------------
(* Positions of the tokens in the content, for stating the properties *)

\* The position just after the text s, counted from {0,0}.
EndPosition(s) ==
    LET ls == Split(s)
    IN Position(Len(ls) - 1, Len(ls[Len(ls)]))

\* Where token i begins in the content, and where it ends.
StartOf(tokens, i) == EndPosition(data(SubSeq(tokens, 1, i - 1)))

EndOf(tokens, i) == EndPosition(data(SubSeq(tokens, 1, i)))

TextStarts(tokens) ==
    {StartOf(tokens, i) : i \in {j \in 1..Len(tokens) : tokens[j].category # "Whitespace"}}

WhitespaceStarts(tokens) ==
    {StartOf(tokens, i) : i \in {j \in 1..Len(tokens) : tokens[j].category = "Whitespace"}}

PosMax(S) == CHOOSE p \in S : \A q \in S : PosGeq(p, q)

PosMin(S) == CHOOSE p \in S : \A q \in S : PosGeq(q, p)

\* The cursor is past the first and before the last character position of a
\* token that is not whitespace.
InsideText(tokens, p) ==
    \E i \in 1..Len(tokens) :
        /\ tokens[i].category # "Whitespace"
        /\ PosLt(StartOf(tokens, i), p)
        /\ PosLt(p, EndOf(tokens, i))

\* The start of the token that holds position p.
StartOfTokenAt(tokens, p) ==
    PosMax({StartOf(tokens, i) : i \in {j \in 1..Len(tokens) : ~PosLt(p, StartOf(tokens, j))}})

Ran(c) == workspace.has_buffer /\ last.op = c

----------------------------------------------------------------------------
(* Properties of the cursor commands (SpecNav) *)

\* C1: move_to_start_of_previous_token moves the cursor to the start of the
\* nearest non-whitespace token that begins strictly before the cursor, and it
\* never moves it to the start of a whitespace token (the origin {0,0}, where
\* the motion lands when no such token precedes, aside).
C1_PreviousTokenStart ==
    Ran("cursor::move_to_start_of_previous_token") =>
        LET before == {p \in TextStarts(workspace.tokens) : PosLt(p, last.from)}
        IN /\ before # {} => workspace.cursor = PosMax(before)
           /\ workspace.cursor # last.from =>
                  workspace.cursor \notin WhitespaceStarts(workspace.tokens) \ {Position(0, 0)}

\* C2: move_to_start_of_next_token moves the cursor to the start of the first
\* non-whitespace token that begins strictly after the cursor, and leaves the
\* cursor unchanged when no such token follows.
C2_NextTokenStart ==
    Ran("cursor::move_to_start_of_next_token") =>
        LET after == {p \in TextStarts(workspace.tokens) : PosGt(p, last.from)}
        IN workspace.cursor = IF after # {} THEN PosMin(after) ELSE last.from

\* No whitespace token begins between positions p and q.
NoWhitespaceBetween(tokens, p, q) ==
    \A s \in WhitespaceStarts(tokens) :
        ~((PosGeq(s, p) /\ PosLt(s, q)) \/ (PosGeq(s, q) /\ PosLt(s, p)))

\* C3: from a position strictly inside a non-whitespace token,
\* move_to_start_of_previous_token followed by move_to_start_of_next_token
\* leaves the cursor on the start of the token it began in, provided neither
\* motion carried the cursor over a whitespace token.
C3_PreviousThenNext ==
    [][(/\ Ran("cursor::move_to_start_of_previous_token")
        /\ InsideText(workspace.tokens, last.from)
        /\ CallMoveToStartOfNextToken
        /\ NoWhitespaceBetween(workspace.tokens, last.from, workspace.cursor)
        /\ NoWhitespaceBetween(workspace.tokens, workspace.cursor, workspace'.cursor))
       => workspace'.cursor = StartOfTokenAt(workspace.tokens, last.from)]_vars

C10_FirstWordOfLine ==
    Ran("cursor::move_to_first_word_of_line") =>
        LET line == Split(data(workspace.tokens))[last.from.line + 1]
            words == {i \in 1..Len(line) : ~IsWhitespace(line[i])}
        IN workspace.cursor =
               IF words = {}
               THEN last.from
               ELSE Position(last.from.line, (CHOOSE i \in words : \A j \in words : i <= j) - 1)

\* The cursor came back from the end of an indented second line to its word.
C10_Witness ==
    /\ Ran("cursor::move_to_first_word_of_line")
    /\ last.from.line = 1
    /\ workspace.cursor.line = 1
    /\ workspace.cursor.offset > 0
    /\ workspace.cursor.offset < last.from.offset

\* An all-whitespace line: the cursor stayed.
C10_WitnessBlank ==
    /\ Ran("cursor::move_to_first_word_of_line")
    /\ last.from.offset > 0
    /\ workspace.cursor = last.from

----------------------------------------------------------------------------
(* Properties of the run loop (Spec) *)

\* C5: in an iteration whose key has no command bound under the keymap name of
\* the mode, the steps from the input read on change neither the mode, nor the
\* workspace with its cursor, nor the error (a pending one stays), and the
\* loop is not left.
C5_UnboundKeyMutatesNothing ==
    [][(/\ pc \in {"listen", "dispatch", "exit_check"}
        /\ key' # "None"
        /\ command' = "None")
       => /\ UNCHANGED <<mode, workspace, error, last>>
          /\ pc' # "done"]_vars

\* An unbound key was pressed while the error of a failed save was pending.
C5_Witness ==
    /\ pc = "exit_check"
    /\ key = "z"
    /\ command = "None"
    /\ error = "no path"
    /\ view.status_line = "no path"

\* C6: the error field is exactly the outcome of the most recently dispatched
\* command: its error if it failed, no error if it succeeded.
C6_ErrorIsLastOutcome ==
    error = IF last.result = "Ok" THEN "None" ELSE last.result

\* A command that succeeded replaced the error that this iteration displayed.
C6_Witness ==
    /\ pc = "exit_check"
    /\ view.status_line = "permission denied"
    /\ command # "None"
    /\ last.result = "Ok"
    /\ error = "None"

\* A failure replaced a different failure.
C6_WitnessReplaced ==
    /\ pc = "exit_check"
    /\ view.status_line = "permission denied"
    /\ error = "no path"

\* C7: the loop renders, displays and reads input only while the mode is not
\* Exit; the exit check that follows a dispatch leaves the loop, clearing the
\* display, exactly when the mode is Exit; the loop has ended only in Exit.
C7_ExitEndsLoop ==
    /\ [](pc \in {"render", "display_error", "listen", "dispatch"} => mode.variant # "Exit")
    /\ [](pc = "done" => mode.variant = "Exit" /\ view.frame = "cleared")
    /\ [][pc = "exit_check" =>
              IF mode.variant = "Exit"
              THEN pc' = "done" /\ view'.frame = "cleared" /\ key' = key
              ELSE pc' = "render"]_vars

\* The loop ended after application::exit was dispatched.
C7_Witness ==
    /\ pc = "done"
    /\ last.op = "application::exit"
    /\ key = "Q"

\* C8 as claimed: an iteration in which listen yielded no key leaves the loop.
C8_NoKeyTerminates ==
    [][pc = "exit_check" /\ key = "None" => pc' = "done"]_vars

\* C8 as the loop behaves: an iteration in which listen yielded no key runs no
\* command, changes neither mode nor error, and goes on to the next iteration.
C8_NoKeyContinues ==
    [][(/\ pc \in {"listen", "dispatch", "exit_check"}
        /\ key' = "None")
       => /\ command' = "None"
          /\ UNCHANGED <<mode, workspace, error, last>>
          /\ pc' # "done"
          /\ pc = "exit_check" => pc' = "render"]_vars

\* The loop came round to render again after listen yielded no key.
C8_Witness ==
    /\ pc = "render"
    /\ key = "None"
    /\ view.frame = "normal"

\* C9: the loop ends only in Exit, never because a command failed; after the
\* exit check it goes round again with the error kept, and whenever it reads
\* input with an error pending, that error is on the status line.
C9_ErrorShownLoopContinues ==
    /\ [](pc = "done" => mode.variant = "Exit")
    /\ [](pc = "listen" /\ error # "None" => view.status_line = error)
    /\ [][pc = "exit_check" /\ error # "None" /\ mode.variant # "Exit" =>
              pc' = "render" /\ error' = error]_vars

\* The loop is reading input with the error of a failed save on display.
C9_Witness ==
    /\ pc = "listen"
    /\ last.op = "buffer::save"
    /\ error = "no path"
    /\ view.status_line = "no path"

----------------------------------------------------------------------------
(* Further properties of the cursor commands (SpecNav) *)

\* C11: with the cursor at the origin {0,0}, move_to_start_of_previous_token
\* leaves it at {0,0}, whatever the tokens are.
C11_PreviousTokenAtOrigin ==
    Ran("cursor::move_to_start_of_previous_token") /\ last.from = Position(0, 0)
        => workspace.cursor = Position(0, 0)

\* The motion ran at the origin of a content that begins with a word followed
\* by more tokens.
C11_Witness ==
    /\ Ran("cursor::move_to_start_of_previous_token")
    /\ last.from = Position(0, 0)
    /\ workspace.cursor = Position(0, 0)
    /\ Len(workspace.tokens) >= 2
    /\ workspace.tokens[1].category = "Text"

----------------------------------------------------------------------------
(* Further properties of the run loop (Spec) *)

\* The keymap names the specification gives to the modes without a text-entry
\* sub-state.
FixedKeymapName ==
    ("Normal" :> "normal") @@ ("Insert" :> "insert") @@ ("Confirm" :> "confirm")
        @@ ("Jump" :> "jump") @@ ("LineJump" :> "line_jump") @@ ("Select" :> "select")
        @@ ("SelectLine" :> "select_line") @@ ("SearchInsert" :> "search_insert")

\* The keymap name of mode m according to the specification.
KeymapName(m) ==
    IF m.variant \in DOMAIN FixedKeymapName
    THEN FixedKeymapName[m.variant]
    ELSE IF m.variant \in {"Command", "Open", "SymbolJump", "Theme"}
         THEN IF m.insert THEN "search_select_insert" ELSE "search_select"
         ELSE "None"

\* C12: mode_str gives every mode the keymap name of the table: the eight fixed
\* names, "search_select_insert" or "search_select" by the insert flag for
\* Command, Open, SymbolJump and Theme, and no lookup for Exit and only for
\* Exit; the command resolved for a key is the one bound under that name.
C12_ModeStrTable ==
    /\ mode \in Modes
    /\ mode_str(mode) = KeymapName(mode)
    /\ mode_str(mode) = "None" <=> mode.variant = "Exit"
    /\ pc = "dispatch" /\ key # "None" => command = command_for(KeymapName(mode), key)

\* A key was resolved under "search_select" in Theme mode with text entry off.
C12_Witness ==
    /\ pc = "dispatch"
    /\ mode = Mode("Theme", FALSE)
    /\ key = "i"
    /\ command = "search_select::enable_insert"

----------------------------------------------------------------------------
(* Properties of the commands called directly (SpecCmd) *)

\* C13: with no current buffer, a call of any of the nine navigation commands
\* changes nothing of the application: workspace, mode, error, view and the
\* rest stay as they were.
C13_NoBufferNoOp ==
    [][(/\ ~workspace.has_buffer
        /\ \E c \in NavigationCommands : Call(c))
       => UNCHANGED <<workspace, mode, error, view, key, command, pc>>]_vars

\* A navigation command ran without a buffer, in Select mode, with an error
\* pending.
C13_Witness ==
    /\ ~workspace.has_buffer
    /\ last.op = "cursor::move_up"
    /\ mode = Mode("Select", FALSE)
    /\ error = "no path"

\* The first character of the cursor's line that is not whitespace, or the
\* cursor itself when the line has none.
FirstWordPosition(w) ==
    LET line == Split(data(w.tokens))[w.cursor.line + 1]
        words == {i \in 1..Len(line) : ~IsWhitespace(line[i])}
    IN IF words = {}
       THEN w.cursor
       ELSE Position(w.cursor.line, (CHOOSE i \in words : \A j \in words : i <= j) - 1)

\* C17: insert_at_end_of_line moves to the end of the line and then switches
\* to insert mode; insert_at_first_word_of_line moves to the first word and
\* then switches; insert_with_newline moves to the end of the line, starts an
\* operation group, inserts the line break (at the end of the line, into the
\* group) and switches to insert mode last.
C17_CompositeOrder ==
    [][/\ Call("cursor::insert_at_end_of_line") =>
              /\ last'.calls = <<"cursor::move_to_end_of_line",
                                 "application::switch_to_insert_mode">>
              /\ mode' = Mode("Insert", FALSE)
              /\ workspace.has_buffer =>
                     /\ workspace'.tokens = workspace.tokens
                     /\ workspace'.cursor =
                            Position(workspace.cursor.line,
                                     Len(Split(data(workspace.tokens))[workspace.cursor.line + 1]))
       /\ Call("cursor::insert_at_first_word_of_line") =>
              /\ last'.calls = <<"cursor::move_to_first_word_of_line",
                                 "application::switch_to_insert_mode">>
              /\ mode' = Mode("Insert", FALSE)
              /\ workspace.has_buffer =>
                     /\ workspace'.tokens = workspace.tokens
                     /\ workspace'.cursor = FirstWordPosition(workspace)
       /\ Call("cursor::insert_with_newline") =>
              /\ last'.calls = <<"cursor::move_to_end_of_line",
                                 "buffer::start_command_group",
                                 "buffer::insert_newline",
                                 "application::switch_to_insert_mode">>
              /\ mode' = Mode("Insert", FALSE)
              /\ workspace.has_buffer =>
                     LET ls == Split(data(workspace.tokens))
                         l == workspace.cursor.line + 1
                     IN /\ Split(data(workspace'.tokens)) =
                               SubSeq(ls, 1, l) \o <<<<>>>> \o SubSeq(ls, l + 1, Len(ls))
                        /\ workspace'.cursor = Position(l, 0)
                        /\ workspace'.group
                        /\ workspace'.edits = Append(workspace.edits, "grouped")]_vars

\* insert_with_newline ran with the cursor inside the second word of "aa aa":
\* the line break went in after the line, inside the group.
C17_Witness ==
    /\ workspace.has_buffer
    /\ last.op = "cursor::insert_with_newline"
    /\ last.from = Position(0, 4)
    /\ Split(data(workspace.tokens)) = <<<<"a", "a", " ", "a", "a">>, <<>>>>
    /\ workspace.cursor = Position(1, 0)
    /\ workspace.edits = <<"grouped">>
    /\ mode = Mode("Insert", FALSE)

----------------------------------------------------------------------------
(* Properties of the steps of the run loop (Spec) *)

\* C14: the steps of the loop follow each other as render, error display,
\* input read, dispatch, exit check and then render again or the end; a key is
\* read (and a command chosen) only in the input read, a command acts only in
\* the dispatch, and the view is drawn only by render, error display and the
\* exit check: one key and one command at most per iteration, no dispatch
\* before the input read of its iteration.
C14_StepOrder ==
    [][/\ <<pc, pc'>> \in {<<"render", "display_error">>, <<"display_error", "listen">>,
                           <<"listen", "dispatch">>, <<"dispatch", "exit_check">>,
                           <<"exit_check", "render">>, <<"exit_check", "done">>}
       /\ key' # key \/ command' # command => pc = "listen"
       /\ last' # last \/ workspace' # workspace \/ mode' # mode \/ error' # error
              => pc = "dispatch" /\ command # "None"
       /\ view' # view => pc \in {"render", "display_error", "exit_check"}
       /\ pc = "exit_check" => (pc' = "done" <=> mode.variant = "Exit")]_vars

\* An iteration read a key, ran its command and stands at the exit check, the
\* view drawn before the key was read.
C14_Witness ==
    /\ pc = "exit_check"
    /\ key = "w"
    /\ last.op = "cursor::move_to_start_of_next_token"
    /\ workspace.has_buffer
    /\ workspace.cursor # last.from
    /\ view.frame = presenter(mode)

\* C18: only a command changes the mode: the mode changes in no step but a
\* dispatch that runs a command, so an iteration without a command ends in the
\* mode it started in; and until a command has run the application is in
\* normal mode with no error, as constructed.
C18_OnlyCommandsChangeMode ==
    /\ [](last = NoCommand => mode = Mode("Normal", FALSE) /\ error = "None")
    /\ [][mode' # mode => /\ pc = "dispatch"
                          /\ command # "None"
                          /\ last'.op = command
                          /\ mode' = command_mode(command, mode)]_vars

\* An iteration in insert mode read the key "z", bound to nothing, and ends
\* in insert mode.
C18_Witness ==
    /\ pc = "exit_check"
    /\ key = "z"
    /\ command = "None"
    /\ mode = Mode("Insert", FALSE)

\* C20: the command of an iteration is the one bound to the key under the
\* keymap name of the mode at the time the key is read; the dispatch runs that
\* command and leaves it the selected one, whatever mode it switches to.
C20_LookupBeforeCommand ==
    [][/\ pc = "listen" =>
              command' = IF key' = "None" THEN "None"
                         ELSE command_for(KeymapName(mode), key')
       /\ pc = "dispatch" /\ command # "None" =>
              /\ last'.op = command
              /\ command' = command
              /\ key' = key]_vars

\* "i" was read in normal mode and switched to insert mode; under the new
\* mode's keymap the key is bound to nothing, and the command that ran is the
\* one of the old mode.
C20_Witness ==
    /\ pc = "exit_check"
    /\ key = "i"
    /\ command = "application::switch_to_insert_mode"
    /\ last.op = command
    /\ mode = Mode("Insert", FALSE)
    /\ command_for(KeymapName(mode), key) # command

----------------------------------------------------------------------------
(* Properties of the scan of the token motions (SpecNav) *)

\* The position the scans hold when they come to token i: the accumulator
\* advanced from {0,0} over the tokens before it.
RECURSIVE Tracked(_, _)
Tracked(tokens, i) ==
    IF i = 1
    THEN Position(0, 0)
    ELSE advance(Tracked(tokens, i - 1), tokens[i - 1].lexeme)

\* The tokens the scan of move_to_start_of_previous_token comes to before it
\* breaks, and those of move_to_start_of_next_token.
PreviousVisits(tokens, cursor) ==
    {i \in 1..Len(tokens) : \A j \in 1..(i - 1) : ~PosGeq(Tracked(tokens, j + 1), cursor)}

NextVisits(tokens, cursor) ==
    {i \in 1..Len(tokens) :
        \A j \in 1..(i - 1) :
            ~(PosGt(Tracked(tokens, j), cursor) /\ tokens[j].category # "Whitespace")}

\* C15: in both token motions the position tracked for a token the scan comes
\* to is the position where the token begins in the content, also after
\* lexemes that contain or end with a line break.
C15_TrackedIsTrueStart ==
    /\ Ran("cursor::move_to_start_of_previous_token") =>
           \A i \in PreviousVisits(workspace.tokens, last.from) :
               Tracked(workspace.tokens, i) = StartOf(workspace.tokens, i)
    /\ Ran("cursor::move_to_start_of_next_token") =>
           \A i \in NextVisits(workspace.tokens, last.from) :
               Tracked(workspace.tokens, i) = StartOf(workspace.tokens, i)

\* C19: move_to_start_of_previous_token never moves the cursor forward, and
\* leaves it where it was only at {0,0} or when no word begins before it;
\* move_to_start_of_next_token moves the cursor forward or not at all.
C19_MotionsMonotone ==
    /\ Ran("cursor::move_to_start_of_previous_token") =>
           /\ ~PosGt(workspace.cursor, last.from)
           /\ workspace.cursor = last.from =>
                  \/ last.from = Position(0, 0)
                  \/ ~\E p \in TextStarts(workspace.tokens) : PosLt(p, last.from)
    /\ Ran("cursor::move_to_start_of_next_token") =>
           \/ workspace.cursor = last.from
           \/ PosGt(workspace.cursor, last.from)

\* The direction alone: never forward for the previous-token motion, never
\* backward for the next-token motion.
MotionsNeverAgainstDirection ==
    /\ Ran("cursor::move_to_start_of_previous_token") => ~PosGt(workspace.cursor, last.from)
    /\ Ran("cursor::move_to_start_of_next_token") => ~PosLt(workspace.cursor, last.from)

\* The token motions on an empty token sequence.
EmptySequenceUnchanged ==
    /\ Ran("cursor::move_to_start_of_previous_token") /\ workspace.tokens = <<>>
           => workspace.cursor = last.from
    /\ Ran("cursor::move_to_start_of_next_token") /\ workspace.tokens = <<>>
           => workspace.cursor = last.from

====
